---- MODULE Spec2Model ----
\* Verification model of mursten (src/src/lib.rs): the Game facade and the
\* NullBackend loop, and the PushTransform drawing proxy.
EXTENDS Integers, Sequences, FiniteSets, TLC

VARIABLES
    pc,         \* position of the caller / of NullBackend::run
    backend,    \* the NullBackend value: [must_quit, _data]
    scene,      \* the scene owned by the loop: [counter, alive]
    scene0,     \* the scene handed to Game::run
    quitAt,     \* N: the updater wants to stop when the counter reaches N
    trace,      \* the update / draw calls made so far, in order
    seen,       \* the counter values recorded by the draw calls
    quitCalls,  \* number of quit() calls made on the backend
    bret,       \* value returned by NullBackend::run (NoScene before)
    ret,        \* value returned by Game::run (NoScene before)
    layers,     \* transforms of the nested PushTransform proxies, layers[1] wraps the target
    made,       \* the call made on the innermost proxy (a sequence of at most one)
    recv,       \* recv[k]: calls received below layer k+1 (recv[1] is the target)
    callerPts,  \* the caller's point arguments as they are after the call
    updaters,   \* the updaters the application has, in the order it wants them run
    current,    \* Sequence.current
    chain,      \* the then / wait calls applied to every executer, in order
    exec,       \* the SecuenceExecuter in use: [before, now, execute_at_step]
    pos,        \* index in chain of the next call on exec (0: no executer in use)
    ran,        \* the closures run so far: <<number of the step() call, index in chain>>
    stepCalls,  \* number of Sequence::step calls made
    padLog      \* the Dpad conversions made: [dpad, by, vec]

loopVars == <<pc, backend, scene, scene0, quitAt, trace, seen, quitCalls, bret, ret>>
gfxVars  == <<layers, made, recv>>
seqVars  == <<current, chain, exec, pos, ran, stepCalls>>
vars     == <<pc, backend, scene, scene0, quitAt, trace, seen, quitCalls, bret, ret,
              layers, made, recv, callerPts, updaters, current, chain, exec, pos, ran,
              stepCalls, padLog>>

\* ---------------------------------------------------------------- bounds
MaxCounter   == 5   \* the loop is followed until the counter reaches this
MaxQuitAt    == 3   \* largest N of the quitting updater
MaxQuitCalls == 2   \* quit() calls made before run
MaxStart     == 1   \* largest initial counter
MaxDepth     == 3   \* nesting depth of PushTransform proxies
MaxVerts     == 2   \* vertices of a polygon
MaxUpdaters  == 2   \* updaters the application has
MaxChain     == 3   \* then / wait calls in the chain applied to an executer
MaxSteps     == 4   \* Sequence::step calls
MaxWait      == 2   \* largest argument of wait
MaxConv      == 3   \* Dpad conversions in one run

NoScene == [counter |-> -1, alive |-> FALSE]

\* ------------------------------------------------------- Game / NullBackend

\* NullBackend::new
NullBackendNew == [must_quit |-> FALSE, _data |-> "None"]

\* NullBackend::quit, as a function of the backend value (a mutant: toggling)
QuitToggle(b) == [b EXCEPT !.must_quit = ~b.must_quit]

\* NullBackend::quit
QuitOp(b) == [b EXCEPT !.must_quit = TRUE]

\* Scene::alive, default body; a scene type may override it, which the model
\* represents by the scene's alive field (the overriding value).
SceneAlive(s) == s.alive

\* The updater of the end-to-end scenario: it adds one to the counter. Its
\* context is the unit value, so its wish to quit (counter = quitAt) has no
\* backend to reach.
UpdateScene(s) == [s EXCEPT !.counter = s.counter + 1]

\* the same updater applied n times
RECURSIVE UpdateTimes(_, _)
UpdateTimes(s, n) == IF n = 0 THEN s ELSE UpdateTimes(UpdateScene(s), n - 1)

\* a draw step that changes what it is shown (a mutant of DrawScene)
DrawSceneDirty(s) == [s EXCEPT !.counter = 0]

\* Draw::draw takes &self: the scene after a draw call is the scene before it
DrawScene(s) == s

\* control flow of run with the quit test moved behind the draw call (a mutant)
NextPcTestLast(p, q) ==
    CASE p = "test"   -> "update"
      [] p = "update" -> "check"
      [] p = "check"  -> "draw"
      [] p = "draw"   -> IF q THEN "tail" ELSE "test"
      [] OTHER        -> p

\* control flow of run with the two phases swapped (a mutant)
NextPcDrawFirst(p, q) ==
    CASE p = "test"   -> IF ~q THEN "draw" ELSE "tail"
      [] p = "draw"   -> "update"
      [] p = "update" -> "check"
      [] p = "check"  -> IF q THEN "early" ELSE "test"
      [] OTHER        -> p

\* control flow of run with a loop test that also asks the scene (a mutant)
NextPcAlive(p, q) ==
    CASE p = "test"   -> IF ~q /\ SceneAlive(scene) THEN "update" ELSE "tail"
      [] p = "update" -> "check"
      [] p = "check"  -> IF q THEN "early" ELSE "draw"
      [] p = "draw"   -> "test"
      [] OTHER        -> p

\* control flow of NullBackend::run: the position after the step at p, given
\* the value q of self.must_quit
NextPc(p, q) ==
    CASE p = "test"   -> IF ~q THEN "update" ELSE "tail"
      [] p = "update" -> "check"
      [] p = "check"  -> IF q THEN "early" ELSE "draw"
      [] p = "draw"   -> "test"
      [] OTHER        -> p

\* backend.quit() between construction and Game::new: run takes the backend by
\* value and Game keeps it private, so no later call is possible
Quit ==
    /\ pc = "new"
    /\ quitCalls < MaxQuitCalls
    /\ backend' = QuitOp(backend)
    /\ quitCalls' = quitCalls + 1
    /\ UNCHANGED <<pc, scene, scene0, quitAt, trace, seen, bret, ret>>
    /\ UNCHANGED <<gfxVars, callerPts, updaters, seqVars, padLog>>

\* Game::new(backend)
GameNew ==
    /\ pc = "new"
    /\ pc' = "game"
    /\ UNCHANGED <<backend, scene, scene0, quitAt, trace, seen, quitCalls, bret, ret>>
    /\ UNCHANGED <<gfxVars, callerPts, updaters, seqVars, padLog>>

\* Game::run(scene): takes the backend out of the Game and calls backend.run(scene)
GameRun ==
    /\ pc = "game"
    /\ scene' = scene0
    /\ pc' = "test"
    /\ UNCHANGED <<backend, scene0, quitAt, trace, seen, quitCalls, bret, ret>>
    /\ UNCHANGED <<gfxVars, callerPts, updaters, seqVars, padLog>>

\* while !self.must_quit
LoopTest ==
    /\ pc = "test"
    /\ pc' = NextPc(pc, backend.must_quit)
    /\ UNCHANGED <<backend, scene, scene0, quitAt, trace, seen, quitCalls, bret, ret>>
    /\ UNCHANGED <<gfxVars, callerPts, updaters, seqVars, padLog>>

\* scene.update(&mut ())
Update ==
    /\ pc = "update"
    /\ scene.counter < MaxCounter
    /\ scene' = UpdateScene(scene)
    /\ trace' = Append(trace, "update")
    /\ pc' = NextPc(pc, backend.must_quit)
    /\ UNCHANGED <<backend, scene0, quitAt, seen, quitCalls, bret, ret>>
    /\ UNCHANGED <<gfxVars, callerPts, updaters, seqVars, padLog>>

\* if self.must_quit { return scene }
CheckQuit ==
    /\ pc = "check"
    /\ pc' = NextPc(pc, backend.must_quit)
    /\ UNCHANGED <<backend, scene, scene0, quitAt, trace, seen, quitCalls, bret, ret>>
    /\ UNCHANGED <<gfxVars, callerPts, updaters, seqVars, padLog>>

\* scene.draw(&mut ()): the draw step of the scenario records the counter it sees
Draw ==
    /\ pc = "draw"
    /\ seen' = Append(seen, scene.counter)
    /\ scene' = DrawScene(scene)
    /\ trace' = Append(trace, "draw")
    /\ pc' = NextPc(pc, backend.must_quit)
    /\ UNCHANGED <<backend, scene0, quitAt, quitCalls, bret, ret>>
    /\ UNCHANGED <<gfxVars, callerPts, updaters, seqVars, padLog>>

\* NullBackend::run returns the scene (return scene / the tail expression)
BackendReturn ==
    /\ pc \in {"early", "tail"}
    /\ bret' = scene
    /\ pc' = "gret"
    /\ UNCHANGED <<backend, scene, scene0, quitAt, trace, seen, quitCalls, ret>>
    /\ UNCHANGED <<gfxVars, callerPts, updaters, seqVars, padLog>>

\* Game::run returns the value of backend.run(scene)
GameReturn ==
    /\ pc = "gret"
    /\ ret' = bret
    /\ pc' = "done"
    /\ UNCHANGED <<backend, scene, scene0, quitAt, trace, seen, quitCalls, bret>>
    /\ UNCHANGED <<gfxVars, callerPts, updaters, seqVars, padLog>>

\* Sequence::new; no executer in use
SeqIdle ==
    /\ current = 0
    /\ chain = <<>>
    /\ exec = [before |-> 0, now |-> 0, execute_at_step |-> 0]
    /\ pos = 0
    /\ ran = <<>>
    /\ stepCalls = 0

PadIdle == padLog = <<>>

LoopInit ==
    /\ pc = "new"
    /\ backend = NullBackendNew
    /\ scene0 \in [counter : 0..MaxStart, alive : BOOLEAN]
    /\ scene = scene0
    /\ quitAt \in 1..MaxQuitAt
    /\ updaters \in {[i \in 1..n |-> i] : n \in 1..MaxUpdaters}
    /\ trace = <<>>
    /\ seen = <<>>
    /\ quitCalls = 0
    /\ bret = NoScene
    /\ ret = NoScene

GfxIdle == layers = <<>> /\ made = <<>> /\ recv = <<>> /\ callerPts = <<>>

Init == LoopInit /\ GfxIdle /\ SeqIdle /\ PadIdle

Next ==
    \/ Quit
    \/ GameNew
    \/ GameRun
    \/ LoopTest
    \/ Update
    \/ CheckQuit
    \/ Draw
    \/ BackendReturn
    \/ GameReturn

Spec == Init /\ [][Next]_vars

\* ------------------------------------------------------------ graphics
\* Coordinates are f32 values. The model uses integer-valued ones: an integer
\* of magnitude up to 2^24 is an f32 exactly, a larger one is rounded to the
\* nearest f32 (ties to the even significand), as each f32 operation does.

F32Exact == 2^24

Abs(x) == IF x < 0 THEN -x ELSE x

\* distance between neighbouring f32 values around magnitude a
RECURSIVE Ulp(_)
Ulp(a) == IF a < F32Exact THEN 1 ELSE 2 * Ulp(a \div 2)

\* the f32 nearest to the integer x
F32(x) ==
    LET a == Abs(x)
        u == Ulp(a)
        q == a \div u
        r == a % u
        m == IF 2 * r < u THEN q
             ELSE IF 2 * r > u THEN q + 1
             ELSE IF q % 2 = 0 THEN q ELSE q + 1
    IN  IF x < 0 THEN -(m * u) ELSE m * u

FMul(a, b) == F32(a * b)
FAdd(a, b) == F32(a + b)

\* An affine Transform2<f32>: the rows <<m11, m12, m13>>, <<m21, m22, m23>> of
\* its homogeneous matrix; the third row is <<0, 0, 1>>.
Affine(a, b, tx, c, d, ty) == << <<a, b, tx>>, <<c, d, ty>> >>

\* transform * point applied as T * (p + t): translation first (a mutant)
TransformPointShiftFirst(T, p) ==
    << FAdd(FMul(T[1][1], FAdd(p[1], T[1][3])), FMul(T[1][2], FAdd(p[2], T[2][3]))),
       FAdd(FMul(T[2][1], FAdd(p[1], T[1][3])), FMul(T[2][2], FAdd(p[2], T[2][3]))) >>

\* self.transform * point: the linear part applied to the coordinates, then
\* the translation added, every operation in f32
TransformPoint(T, p) ==
    << FAdd(FAdd(FMul(T[1][1], p[1]), FMul(T[1][2], p[2])), T[1][3]),
       FAdd(FAdd(FMul(T[2][1], p[1]), FMul(T[2][2], p[2])), T[2][3]) >>

\* the vertices mapped but collected back to front (a mutant)
MapPointsReversed(T, ps) ==
    [i \in 1..Len(ps) |-> TransformPoint(T, ps[Len(ps) + 1 - i])]

\* points.iter().map(|p| transform * p).collect()
MapPoints(T, ps) == [i \in 1..Len(ps) |-> TransformPoint(T, ps[i])]

\* point + vector and point - vector, in f32
PointAdd(p, v) == << FAdd(p[1], v[1]), FAdd(p[2], v[2]) >>
PointSub(p, v) == << FAdd(p[1], -v[1]), FAdd(p[2], -v[2]) >>

\* width / 2.0; the widths given to square_centered are even, so the half is
\* an integer
Half(w) == w \div 2

\* a call value
MkCall(op, mode, pts, args, color, text) ==
    [op |-> op, mode |-> mode, pts |-> pts, args |-> args, color |-> color, text |-> text]

\* the corners with the last two exchanged (a mutant)
RectangleCornersCrossed(up_left, width, height) ==
    << up_left,
       PointAdd(up_left, <<width, 0>>),
       PointAdd(up_left, <<0, height>>),
       PointAdd(up_left, <<width, height>>) >>

\* the vec! of DrawPrimitives::rectangle
RectangleCorners(up_left, width, height) ==
    << up_left,
       PointAdd(up_left, <<width, 0>>),
       PointAdd(up_left, <<width, height>>),
       PointAdd(up_left, <<0, height>>) >>

\* DrawPrimitives::rectangle (default body): self.polygon(mode, &vec![..])
RectangleAsPolygon(c) ==
    MkCall("polygon", c.mode, RectangleCorners(c.pts[1], c.args[1], c.args[2]),
           <<>>, "", "")

\* DrawPrimitives::square (default body): self.rectangle(mode, up_left, width, width)
SquareAsRectangle(c) ==
    MkCall("rectangle", c.mode, c.pts, <<c.args[1], c.args[1]>>, "", "")

\* DrawPrimitives::square_centered (default body):
\* self.square(mode, center - Vector2::new(width/2.0, width/2.0), width)
SquareCenteredAsSquare(c) ==
    MkCall("square", c.mode,
           << PointSub(c.pts[1], <<Half(c.args[1]), Half(c.args[1])>>) >>,
           <<c.args[1]>>, "", "")

\* PushTransform::polygon
PushPolygon(T, c) == << [c EXCEPT !.pts = MapPoints(T, c.pts)] >>

\* a proxy whose line maps the origin only (a mutant)
PushTransformCallLineOrigin(T, c) ==
    CASE c.op = "circle"  -> << [c EXCEPT !.pts = <<TransformPoint(T, c.pts[1])>>] >>
      [] c.op = "ellipse" -> << [c EXCEPT !.pts = <<TransformPoint(T, c.pts[1])>>] >>
      [] c.op = "line"    -> << [c EXCEPT !.pts = <<TransformPoint(T, c.pts[1]), c.pts[2]>>] >>
      [] c.op = "polygon" -> << [c EXCEPT !.pts = MapPoints(T, c.pts)] >>
      [] c.op = "text"    -> << [c EXCEPT !.pts = <<TransformPoint(T, c.pts[1])>>] >>
      [] OTHER            -> << c >>

\* a proxy that forwards present twice and set_color as clear (a mutant)
PushTransformCallNoisy(T, c) ==
    CASE c.op = "circle"  -> << [c EXCEPT !.pts = <<TransformPoint(T, c.pts[1])>>] >>
      [] c.op = "ellipse" -> << [c EXCEPT !.pts = <<TransformPoint(T, c.pts[1])>>] >>
      [] c.op = "line"    -> << [c EXCEPT !.pts = <<TransformPoint(T, c.pts[1]),
                                                      TransformPoint(T, c.pts[2])>>] >>
      [] c.op = "polygon" -> << [c EXCEPT !.pts = MapPoints(T, c.pts)] >>
      [] c.op = "text"    -> << [c EXCEPT !.pts = <<TransformPoint(T, c.pts[1])>>] >>
      [] c.op = "present" -> << c, c >>
      [] c.op = "set_color" -> << [c EXCEPT !.op = "clear"] >>
      [] OTHER            -> << c >>

\* impl Graphics / DrawPrimitives for PushTransform: the calls one proxy with
\* transform T makes on its wrapped target s when it receives the call c.
\* A call is [op, mode, pts, args, color, text].
PushTransformCall(T, c) ==
    CASE c.op = "clear"     -> << c >>
      [] c.op = "present"   -> << c >>
      [] c.op = "set_color" -> << c >>
      [] c.op = "circle"    -> << [c EXCEPT !.pts = <<TransformPoint(T, c.pts[1])>>] >>
      [] c.op = "ellipse"   -> << [c EXCEPT !.pts = <<TransformPoint(T, c.pts[1])>>] >>
      [] c.op = "line"      -> << [c EXCEPT !.pts = <<TransformPoint(T, c.pts[1]),
                                                        TransformPoint(T, c.pts[2])>>] >>
      [] c.op = "polygon"   -> PushPolygon(T, c)
      [] c.op = "text"      -> << [c EXCEPT !.pts = <<TransformPoint(T, c.pts[1])>>] >>
      \* not overridden by PushTransform: the default bodies, run on the proxy
      [] c.op = "rectangle" -> PushPolygon(T, RectangleAsPolygon(c))
      [] c.op = "square"    -> PushPolygon(T, RectangleAsPolygon(SquareAsRectangle(c)))
      [] c.op = "square_centered" ->
            PushPolygon(T, RectangleAsPolygon(SquareAsRectangle(SquareCenteredAsSquare(c))))

\* the calls a proxy makes on its target for a sequence of calls it receives
RECURSIVE ForwardAll(_, _)
ForwardAll(T, cs) ==
    IF cs = <<>> THEN <<>>
    ELSE PushTransformCall(T, Head(cs)) \o ForwardAll(T, Tail(cs))

\* PushTransform::new nested: ls[1] wraps the target (level 0), ls[k] wraps
\* level k - 1. The calls that arrive at level k when c is made on the proxy
\* of level Len(ls).
RECURSIVE ArriveAt(_, _, _)
ArriveAt(ls, k, c) ==
    IF k >= Len(ls) THEN << c >>
    ELSE ForwardAll(ls[k + 1], ArriveAt(ls, k + 1, c))

\* ------------------------------------------------- inputs of the drawing calls
NoMode  == <<"none">>
Fill    == <<"Fill">>
LineMode(w) == <<"Line", w>>
Modes   == {Fill, LineMode(2)}
Colors  == {"red", "blue"}
Texts   == {"a", "bc"}
Sizes   == {1, 2}
EvenSizes == {2, 4}
Points  == {<<0, 0>>, <<1, 0>>, <<-2, 3>>}
Transforms ==
    { Affine(1, 0, 3, 0, 1, 4),              \* translation by (3, 4)
      Affine(0, -2, 0, 2, 0, 1),             \* quarter turn, scaled by 2, shifted
      Affine(1, 0, F32Exact, 0, 1, 0),       \* translation by (2^24, 0)
      Affine(1, 0, -F32Exact, 0, 1, 0) }     \* translation by (-2^24, 0)

RECURSIVE SeqsUpTo(_, _)
SeqsUpTo(S, n) ==
    IF n = 0 THEN {<<>>}
    ELSE LET shorter == SeqsUpTo(S, n - 1)
         IN  shorter \cup {Append(q, x) : q \in shorter, x \in S}

\* the call c made on the innermost proxy: every level below receives what the
\* level above forwards; no method assigns the transform
Call(c) ==
    /\ made' = Append(made, c)
    /\ recv' = [j \in 1..Len(layers) |-> recv[j] \o ArriveAt(layers, j - 1, c)]
    /\ callerPts' = c.pts
    /\ UNCHANGED layers
    /\ UNCHANGED <<loopVars, updaters, seqVars, padLog>>

\* the drawing calls; a run of the model makes one call on the innermost proxy
Clear ==
    \E col \in Colors :
        /\ made = <<>>
        /\ Call(MkCall("clear", NoMode, <<>>, <<>>, col, ""))

Present ==
    /\ made = <<>>
    /\ Call(MkCall("present", NoMode, <<>>, <<>>, "", ""))

SetColor ==
    \E col \in Colors :
        /\ made = <<>>
        /\ Call(MkCall("set_color", NoMode, <<>>, <<>>, col, ""))

Circle ==
    \E m \in Modes, o \in Points, r \in Sizes :
        /\ made = <<>>
        /\ Call(MkCall("circle", m, <<o>>, <<r>>, "", ""))

Ellipse ==
    \E m \in Modes, o \in Points, w \in Sizes :
        /\ made = <<>>
        /\ Call(MkCall("ellipse", m, <<o>>, <<w, 3 - w>>, "", ""))

Line ==
    \E o \in Points, t \in Points, w \in Sizes :
        /\ made = <<>>
        /\ Call(MkCall("line", NoMode, <<o, t>>, <<w>>, "", ""))

Polygon ==
    \E m \in Modes, ps \in SeqsUpTo(Points, MaxVerts) :
        /\ made = <<>>
        /\ Call(MkCall("polygon", m, ps, <<>>, "", ""))

Text ==
    \E o \in Points, t \in Texts :
        /\ made = <<>>
        /\ Call(MkCall("text", NoMode, <<o>>, <<>>, "", t))

Rectangle ==
    \E m \in Modes, o \in Points, w \in Sizes :
        /\ made = <<>>
        /\ Call(MkCall("rectangle", m, <<o>>, <<w, 3 - w>>, "", ""))

Square ==
    \E m \in Modes, o \in Points, w \in Sizes :
        /\ made = <<>>
        /\ Call(MkCall("square", m, <<o>>, <<w>>, "", ""))

SquareCentered ==
    \E m \in Modes, o \in Points, w \in EvenSizes :
        /\ made = <<>>
        /\ Call(MkCall("square_centered", m, <<o>>, <<w>>, "", ""))

LoopIdle ==
    /\ pc = "new"
    /\ backend = NullBackendNew
    /\ scene0 = [counter |-> 0, alive |-> TRUE]
    /\ scene = scene0
    /\ quitAt = 1
    /\ updaters = <<1>>
    /\ trace = <<>>
    /\ seen = <<>>
    /\ quitCalls = 0
    /\ bret = NoScene
    /\ ret = NoScene

\* PushTransform::new, 1 to MaxDepth times, each proxy wrapping the one before
GfxInit ==
    /\ LoopIdle
    /\ layers \in (SeqsUpTo(Transforms, MaxDepth) \ {<<>>})
    /\ made = <<>>
    /\ recv = [j \in 1..Len(layers) |-> <<>>]
    /\ callerPts = <<>>
    /\ SeqIdle
    /\ PadIdle

GfxNext ==
    \/ Clear
    \/ Present
    \/ SetColor
    \/ Circle
    \/ Ellipse
    \/ Line
    \/ Polygon
    \/ Text
    \/ Rectangle
    \/ Square
    \/ SquareCentered

SpecGfx == GfxInit /\ [][GfxNext]_vars


\* ------------------------------------------------------------ sequence

\* the calls a chain is made of
ThenItem    == <<"then">>
WaitItem(n) == <<"wait", n>>
Items       == {ThenItem} \cup {WaitItem(n) : n \in 0..MaxWait}

\* the test of then with both comparisons inclusive (a mutant)
ThenRunsInclusive(e) == e.before <= e.execute_at_step /\ e.execute_at_step <= e.now

\* SecuenceExecuter::then: whether the closure is called
ThenRuns(e) == e.before <= e.execute_at_step /\ e.execute_at_step < e.now

\* SecuenceExecuter::wait
WaitOp(e, steps) == [e EXCEPT !.execute_at_step = e.execute_at_step + steps]

\* Sequence::step: the executer returned for the counter value c after the increment
StepExecuter(c) == [execute_at_step |-> 0, before |-> c - 1, now |-> c]

\* sequence.step(state, context), called when the executer of the step before
\* has been through the whole chain
SeqStep ==
    /\ pos = 0 \/ pos = Len(chain) + 1
    /\ stepCalls < MaxSteps
    /\ current' = current + 1
    /\ exec' = StepExecuter(current + 1)
    /\ pos' = 1
    /\ stepCalls' = stepCalls + 1
    /\ UNCHANGED <<chain, ran>>
    /\ UNCHANGED <<loopVars, updaters, gfxVars, callerPts, padLog>>

\* .then(c) on the executer
SeqThen ==
    /\ pos \in 1..Len(chain)
    /\ chain[pos] = ThenItem
    /\ ran' = IF ThenRuns(exec) THEN Append(ran, <<stepCalls, pos>>) ELSE ran
    /\ pos' = pos + 1
    /\ UNCHANGED <<current, chain, exec, stepCalls>>
    /\ UNCHANGED <<loopVars, updaters, gfxVars, callerPts, padLog>>

\* .wait(steps) on the executer
SeqWait ==
    /\ pos \in 1..Len(chain)
    /\ chain[pos] # ThenItem
    /\ exec' = WaitOp(exec, chain[pos][2])
    /\ pos' = pos + 1
    /\ UNCHANGED <<current, chain, ran, stepCalls>>
    /\ UNCHANGED <<loopVars, updaters, gfxVars, callerPts, padLog>>

\* Sequence::new, and the chain the caller applies after every step
SeqInit ==
    /\ LoopIdle
    /\ GfxIdle
    /\ PadIdle
    /\ current = 0
    /\ chain \in SeqsUpTo(Items, MaxChain)
    /\ exec = [before |-> 0, now |-> 0, execute_at_step |-> 0]
    /\ pos = 0
    /\ ran = <<>>
    /\ stepCalls = 0

SeqNext ==
    \/ SeqStep
    \/ SeqThen
    \/ SeqWait

SpecSeq == SeqInit /\ [][SeqNext]_vars


\* ---------------------------------------------------------------- input

\* enum Dpad
Dpads == {"Up", "Right", "Bottom", "Left"}

\* impl Into<Vector2<f32>> for &Dpad
IntoByRef(d) ==
    CASE d = "Up"     -> << 0,  1>>
      [] d = "Right"  -> << 1,  0>>
      [] d = "Bottom" -> << 0, -1>>
      [] d = "Left"   -> <<-1,  0>>

\* impl Into<Vector2<f32>> for Dpad
IntoByValue(d) ==
    CASE d = "Up"     -> << 0, -1>>
      [] d = "Right"  -> << 1,  0>>
      [] d = "Bottom" -> << 0,  1>>
      [] d = "Left"   -> <<-1,  0>>

\* (&dpad).into()
PadIntoRef ==
    \E d \in Dpads :
        /\ Len(padLog) < MaxConv
        /\ padLog' = Append(padLog, [dpad |-> d, by |-> "ref", vec |-> IntoByRef(d)])
        /\ UNCHANGED <<loopVars, updaters, gfxVars, callerPts, seqVars>>

\* dpad.into()
PadIntoValue ==
    \E d \in Dpads :
        /\ Len(padLog) < MaxConv
        /\ padLog' = Append(padLog, [dpad |-> d, by |-> "value", vec |-> IntoByValue(d)])
        /\ UNCHANGED <<loopVars, updaters, gfxVars, callerPts, seqVars>>

PadInit ==
    /\ LoopIdle
    /\ GfxIdle
    /\ SeqIdle
    /\ padLog = <<>>

PadNext ==
    \/ PadIntoRef
    \/ PadIntoValue

SpecPad == PadInit /\ [][PadNext]_vars

\* ------------------------------------------------------------ loop claims

\* the draw call, if the step is one
DrawStep == Len(trace') = Len(trace) + 1 /\ trace'[Len(trace')] = "draw"

C2_QuitFromUpdate ==
    (quitCalls = 0 /\ pc \in {"check", "draw", "early"} /\ scene.counter = quitAt
        /\ scene0.counter < quitAt)
        => (backend.must_quit /\ pc # "draw")

\* C3 (as claimed): from counter 0, the draw observations are 1, 2, .. and stay
\* below quitAt, and the run returns with counter = quitAt after quitAt - 1 draws.
C3_EndToEnd ==
    (scene0.counter = 0 /\ quitCalls = 0) =>
        /\ \A i \in 1..Len(seen) : seen[i] = i /\ i < quitAt
        /\ scene.counter <= quitAt
        /\ (pc = "done" => ret.counter = quitAt /\ Len(seen) = quitAt - 1)

RECURSIVE CountOf(_, _)
CountOf(t, x) ==
    IF t = <<>> THEN 0
    ELSE (IF Head(t) = x THEN 1 ELSE 0) + CountOf(Tail(t), x)

\* C4: update and draw calls strictly alternate, starting with an update; the
\* number of draw calls is the number of update calls or one less, and a draw
\* call begins only when the update call of its iteration has completed.
C4_Alternation ==
    /\ \A i \in 1..Len(trace) : trace[i] = (IF i % 2 = 1 THEN "update" ELSE "draw")
    /\ CountOf(trace, "draw") \in {CountOf(trace, "update"), CountOf(trace, "update") - 1}
    /\ (pc = "draw" => trace # <<>> /\ trace[Len(trace)] = "update")
    /\ (pc = "update" => trace = <<>> \/ trace[Len(trace)] = "draw")

\* two full iterations have run and a third update has completed
C4_Witness == trace = <<"update", "draw", "update", "draw", "update">> /\ pc = "check"

\* C5: the quit flag is false on construction, once true it stays true, and the
\* only step that changes the backend is quit(), which sets the flag.
C5_QuitMonotone ==
    /\ ~backend.must_quit
    /\ [][/\ (backend.must_quit => backend'.must_quit)
          /\ (backend' # backend => quitCalls' = quitCalls + 1 /\ backend'.must_quit)]_vars

\* quit() was called and the loop test has read the flag
C5_Witness == backend.must_quit /\ quitCalls = 1 /\ pc = "tail"

\* C6: quit() is idempotent: applying it twice gives the backend that applying
\* it once gives, whatever the number of calls the backend is the one a single
\* call produces, and the run that follows makes no update and no draw call.
C6_QuitIdempotent ==
    /\ QuitOp(QuitOp(backend)) = QuitOp(backend)
    /\ (quitCalls >= 1 => backend = QuitOp(NullBackendNew))
    /\ (quitCalls >= 1 /\ pc = "done" => trace = <<>> /\ seen = <<>> /\ ret = scene0)

\* quit() was called twice and the run has returned
C6_Witness == quitCalls = 2 /\ pc = "done" /\ backend.must_quit

At(k) == IF k = Len(layers) THEN made ELSE recv[k + 1]

PointOps == {"circle", "ellipse", "line", "text"}
PlainOps == {"clear", "present", "set_color"}

\* C7: for each proxy and each circle, ellipse, line or text call it receives,
\* its target receives exactly one call of the same primitive with every point
\* p replaced by T * p and every other argument unchanged.
C7_PointsMapped ==
    \A k \in 1..Len(layers) :
        /\ Len(At(k - 1)) = Len(At(k))
        /\ \A i \in 1..Len(At(k)) :
             LET up == At(k)[i]
                 dn == At(k - 1)[i]
             IN  up.op \in PointOps =>
                   /\ dn.op = up.op
                   /\ dn.mode = up.mode
                   /\ dn.args = up.args
                   /\ dn.text = up.text
                   /\ dn.color = up.color
                   /\ Len(dn.pts) = Len(up.pts)
                   /\ \A j \in 1..Len(up.pts) :
                        dn.pts[j] = TransformPoint(layers[k], up.pts[j])

\* a line drawn through one proxy reached the target with both endpoints moved
C7_Witness ==
    /\ Len(layers) = 1
    /\ Len(made) = 1
    /\ made[1].op = "line"
    /\ made[1].pts[1] # made[1].pts[2]
    /\ Len(recv[1]) = 1
    /\ recv[1][1].pts[1] # made[1].pts[1]
    /\ recv[1][1].pts[2] # made[1].pts[2]

\* each layer's transform applied in turn, from the innermost layer outwards
RECURSIVE ApplyLayers(_, _)
ApplyLayers(ls, p) ==
    IF ls = <<>> THEN p
    ELSE ApplyLayers(SubSeq(ls, 1, Len(ls) - 1), TransformPoint(ls[Len(ls)], p))

\* the composed transform "T1 applied after T2": the f32 matrix product
Compose(T1, T2) ==
    [r \in 1..2 |->
        << FAdd(FMul(T1[r][1], T2[1][1]), FMul(T1[r][2], T2[2][1])),
           FAdd(FMul(T1[r][1], T2[1][2]), FMul(T1[r][2], T2[2][2])),
           FAdd(FAdd(FMul(T1[r][1], T2[1][3]), FMul(T1[r][2], T2[2][3])), T1[r][3]) >>]

\* ls[1] after ls[2] after .., grouped from the left and from the right
RECURSIVE ComposeLeft(_)
ComposeLeft(ls) ==
    IF Len(ls) = 1 THEN ls[1]
    ELSE Compose(ComposeLeft(SubSeq(ls, 1, Len(ls) - 1)), ls[Len(ls)])

RECURSIVE ComposeRight(_)
ComposeRight(ls) ==
    IF Len(ls) = 1 THEN ls[1] ELSE Compose(ls[1], ComposeRight(Tail(ls)))

\* the same computations in exact arithmetic, and whether every intermediate
\* value of them is an f32 (so that no f32 operation rounds)
Fits(x) == Abs(x) <= F32Exact

XPoint(T, p) ==
    << T[1][1] * p[1] + T[1][2] * p[2] + T[1][3],
       T[2][1] * p[1] + T[2][2] * p[2] + T[2][3] >>

PointFits(T, p) ==
    \A r \in 1..2 :
        /\ Fits(T[r][1] * p[1]) /\ Fits(T[r][2] * p[2])
        /\ Fits(T[r][1] * p[1] + T[r][2] * p[2])
        /\ Fits(T[r][1] * p[1] + T[r][2] * p[2] + T[r][3])

XCompose(T1, T2) ==
    [r \in 1..2 |->
        << T1[r][1] * T2[1][1] + T1[r][2] * T2[2][1],
           T1[r][1] * T2[1][2] + T1[r][2] * T2[2][2],
           T1[r][1] * T2[1][3] + T1[r][2] * T2[2][3] + T1[r][3] >>]

ComposeFits(T1, T2) ==
    \A r \in 1..2 :
        /\ \A c \in 1..3 : Fits(T1[r][1] * T2[1][c]) /\ Fits(T1[r][2] * T2[2][c])
                           /\ Fits(T1[r][1] * T2[1][c] + T1[r][2] * T2[2][c])
        /\ Fits(T1[r][1] * T2[1][3] + T1[r][2] * T2[2][3] + T1[r][3])

RECURSIVE XComposeLeft(_)
XComposeLeft(ls) ==
    IF Len(ls) = 1 THEN ls[1]
    ELSE XCompose(XComposeLeft(SubSeq(ls, 1, Len(ls) - 1)), ls[Len(ls)])

RECURSIVE XComposeRight(_)
XComposeRight(ls) ==
    IF Len(ls) = 1 THEN ls[1] ELSE XCompose(ls[1], XComposeRight(Tail(ls)))

RECURSIVE NestedFits(_, _)
NestedFits(ls, p) ==
    IF ls = <<>> THEN TRUE
    ELSE /\ PointFits(ls[Len(ls)], p)
         /\ NestedFits(SubSeq(ls, 1, Len(ls) - 1), XPoint(ls[Len(ls)], p))

RECURSIVE LeftFits(_)
LeftFits(ls) ==
    IF Len(ls) = 1 THEN TRUE
    ELSE /\ LeftFits(SubSeq(ls, 1, Len(ls) - 1))
         /\ ComposeFits(XComposeLeft(SubSeq(ls, 1, Len(ls) - 1)), ls[Len(ls)])

RECURSIVE RightFits(_)
RightFits(ls) ==
    IF Len(ls) = 1 THEN TRUE
    ELSE RightFits(Tail(ls)) /\ ComposeFits(ls[1], XComposeRight(Tail(ls)))

\* no f32 operation rounds, neither layer by layer nor in the composed transform
NoRounding(ls, p) ==
    LET left  == XComposeLeft(ls)
        right == XComposeRight(ls)
    IN  /\ \A k \in 1..Len(ls) : \A r \in 1..2 : \A c \in 1..3 : Fits(ls[k][r][c])
        /\ Fits(p[1]) /\ Fits(p[2])
        /\ NestedFits(ls, p)
        /\ LeftFits(ls) /\ PointFits(left, p)
        /\ RightFits(ls) /\ PointFits(right, p)

\* the points the target received for the calls made: <<received, given>> pairs
Delivered ==
    UNION { { <<recv[1][i].pts[j], made[i].pts[j]>> : j \in 1..Len(made[i].pts) } :
            i \in {n \in 1..Len(made) : made[n].op \in PointOps \cup {"polygon"}} }

\* the target received one call per call made, with as many points
SameShape ==
    /\ Len(recv[1]) = Len(made)
    /\ \A i \in 1..Len(made) :
         made[i].op \in PointOps \cup {"polygon"} => Len(recv[1][i].pts) = Len(made[i].pts)

LayerByLayer == \A d \in Delivered : d[1] = ApplyLayers(layers, d[2])

AsComposed(ps) ==
    LET left  == ComposeLeft(layers)
        right == ComposeRight(layers)
    IN  \A d \in ps : /\ d[1] = TransformPoint(left, d[2])
                      /\ d[1] = TransformPoint(right, d[2])

\* C8 (as claimed): the point delivered through the nested proxies is each
\* layer's transform applied in turn from the innermost layer outwards, and it
\* is the point the single composed transform delivers, however the
\* transforms are grouped when composed.
C8_Composition == SameShape /\ LayerByLayer /\ AsComposed(Delivered)

\* C8 (amended): the delivered point is each layer's transform applied in turn
\* from the innermost layer outwards; it is the point the composed transform
\* delivers, however grouped, when no f32 operation of either computation
\* rounds.
C8_CompositionExact ==
    /\ SameShape
    /\ LayerByLayer
    /\ AsComposed({d \in Delivered : NoRounding(layers, d[2])})

\* a point drawn through three nested proxies, without rounding, was moved
C8_Witness ==
    /\ Len(layers) = 3
    /\ layers[1] # layers[2] /\ layers[2] # layers[3]
    /\ Len(made) = 1
    /\ made[1].op = "circle"
    /\ NoRounding(layers, made[1].pts[1])
    /\ Len(recv[1]) = 1
    /\ recv[1][1].pts[1] # made[1].pts[1]
    /\ recv[1][1].pts[1] = TransformPoint(ComposeLeft(layers), made[1].pts[1])

\* C9: clear, present and set_color arrive at every level and at the target
\* exactly once, as the same operation with the same colour, and no call
\* changes a proxy's stored transform.
C9_PassThrough ==
    /\ [](\A k \in 1..Len(layers) :
            /\ Len(At(k - 1)) = Len(At(k))
            /\ \A i \in 1..Len(At(k)) :
                 At(k)[i].op \in PlainOps => At(k - 1)[i] = At(k)[i])
    /\ [][layers' = layers]_vars

\* a clear call made through three nested proxies has reached the target
C9_Witness ==
    /\ Len(layers) = 3
    /\ Len(made) = 1
    /\ made[1].op = "clear"
    /\ \A k \in 0..2 : At(k) = made

\* C11: a polygon call on a proxy arrives at its target as one polygon call
\* with as many vertices, the i-th being T * (the i-th given), in the same draw
\* mode, and the caller's vertex list is as it was given.
C11_PolygonForwarded ==
    /\ \A k \in 1..Len(layers) :
         /\ Len(At(k - 1)) = Len(At(k))
         /\ \A i \in 1..Len(At(k)) :
              LET up == At(k)[i]
                  dn == At(k - 1)[i]
              IN  up.op = "polygon" =>
                    /\ dn.op = "polygon"
                    /\ dn.mode = up.mode
                    /\ dn.args = up.args
                    /\ Len(dn.pts) = Len(up.pts)
                    /\ \A j \in 1..Len(up.pts) :
                         dn.pts[j] = TransformPoint(layers[k], up.pts[j])
    /\ \A i \in 1..Len(made) : made[i].op = "polygon" => callerPts = made[i].pts

\* a line-mode polygon of two different vertices went through two proxies
C11_Witness ==
    /\ Len(layers) = 2
    /\ Len(made) = 1
    /\ made[1].op = "polygon"
    /\ made[1].mode = LineMode(2)
    /\ Len(made[1].pts) = 2
    /\ made[1].pts[1] # made[1].pts[2]
    /\ Len(recv[1]) = 1
    /\ recv[1][1].pts[1] # recv[1][1].pts[2]
    /\ recv[2][1].pts # made[1].pts

ShapeOps == {"rectangle", "square", "square_centered"}

\* the up-left corner, width and height a shape call means
ShapeUpLeft(c) ==
    IF c.op = "square_centered"
    THEN << c.pts[1][1] - c.args[1] \div 2, c.pts[1][2] - c.args[1] \div 2 >>
    ELSE c.pts[1]
ShapeWidth(c)  == c.args[1]
ShapeHeight(c) == IF c.op = "rectangle" THEN c.args[2] ELSE c.args[1]

\* C12: rectangle, square and square_centered on a proxy reach its target as
\* exactly one polygon call in the same mode with the corners up-left,
\* up-right, down-right, down-left, each mapped through T; no rectangle or
\* square call reaches any target.
C12_ShapesDecompose ==
    /\ \A i \in 1..Len(made) :
         made[i].op \in ShapeOps =>
           LET c  == made[i]
               T  == layers[Len(layers)]
               ul == ShapeUpLeft(c)
               w  == ShapeWidth(c)
               h  == ShapeHeight(c)
               dn == At(Len(layers) - 1)
           IN  /\ Len(dn) = 1
               /\ dn[1].op = "polygon"
               /\ dn[1].mode = c.mode
               /\ dn[1].pts = << TransformPoint(T, ul),
                                 TransformPoint(T, <<ul[1] + w, ul[2]>>),
                                 TransformPoint(T, <<ul[1] + w, ul[2] + h>>),
                                 TransformPoint(T, <<ul[1], ul[2] + h>>) >>
    /\ \A k \in 1..Len(layers) : \A i \in 1..Len(At(k - 1)) : At(k - 1)[i].op \notin ShapeOps

\* a centred square drawn on one proxy reached the target as a four-cornered polygon
C12_Witness ==
    /\ Len(layers) = 1
    /\ Len(made) = 1
    /\ made[1].op = "square_centered"
    /\ made[1].args[1] = 4
    /\ Len(recv[1]) = 1
    /\ recv[1][1].op = "polygon"
    /\ Len(recv[1][1].pts) = 4
    /\ recv[1][1].pts[1] # made[1].pts[1]

\* ------------------------------------------------- loop claims, continued

\* C13 (as claimed): an update phase invokes each of the N updaters the
\* application has registered exactly once, so after every update phase the
\* number of updater invocations is N times the number of phases run.
C13_ChainOrder ==
    pc = "check" =>
        CountOf(trace, "update") = Len(updaters) * (CountOf(trace, "draw") + 1)

\* C14: when quit() was called before run, run makes no update and no draw
\* call and returns the scene it was given; the loop body is entered only with
\* the quit flag unset.
C14_QuitBeforeRun ==
    /\ (pc \in {"update", "check", "draw", "early"} => ~backend.must_quit)
    /\ (backend.must_quit =>
          /\ trace = <<>> /\ seen = <<>>
          /\ scene = scene0
          /\ (pc \in {"gret", "done"} => bret = scene0)
          /\ (pc = "done" => ret = scene0))

\* quit() was called once, then run returned the scene unchanged
C14_Witness ==
    /\ quitCalls = 1
    /\ backend.must_quit
    /\ pc = "done"
    /\ ret = scene0
    /\ bret = scene0

\* C15: the loop goes on by the quit flag alone: with quit unset the loop test
\* leads to an update call and the update call to a draw call, whatever the
\* scene's alive() returns, and no step changes what alive() returns.
C15_AliveIgnored ==
    [][/\ (pc = "test" /\ ~backend.must_quit => pc' = "update")
       /\ (pc = "update" => pc' = "check" /\ trace' = Append(trace, "update"))
       /\ (pc = "check" /\ ~backend.must_quit => pc' = "draw")
       /\ (pc = "draw" => pc' = "test" /\ trace' = Append(trace, "draw"))
       /\ SceneAlive(scene') = SceneAlive(scene)]_vars

\* a scene whose alive() is false has been updated and drawn twice
C15_Witness ==
    /\ ~SceneAlive(scene)
    /\ ~backend.must_quit
    /\ trace = <<"update", "draw", "update", "draw">>
    /\ pc = "test"

\* ------------------------------------------------------- sequence claims

\* the sum of the waits before index i of the chain
RECURSIVE CumWait(_, _)
CumWait(ch, i) ==
    IF i <= 1 THEN 0
    ELSE CumWait(ch, i - 1) + (IF ch[i - 1] = ThenItem THEN 0 ELSE ch[i - 1][2])

\* the step() call numbered k has taken the chain past index i
Passed(k, i) == stepCalls > k \/ (stepCalls = k /\ pos > i)

\* C16: a then-closure preceded by waits summing to w runs during the
\* (w+1)-th step() call and during no other; closures of one step run in chain
\* order; each step() call adds one to the counter and returns an executer
\* with now = before + 1.
C16_OneStepEach ==
    /\ \A n \in 1..Len(ran) :
         /\ ran[n][2] \in 1..Len(chain)
         /\ chain[ran[n][2]] = ThenItem
         /\ ran[n][1] = CumWait(chain, ran[n][2]) + 1
    /\ \A m, n \in 1..Len(ran) :
         m < n => \/ ran[m][1] < ran[n][1]
                  \/ (ran[m][1] = ran[n][1] /\ ran[m][2] < ran[n][2])
    /\ \A i \in 1..Len(chain) :
         (chain[i] = ThenItem /\ Passed(CumWait(chain, i) + 1, i)) =>
            \E n \in 1..Len(ran) : ran[n] = <<CumWait(chain, i) + 1, i>>
    /\ current = stepCalls
    /\ (pos >= 1 => exec.now = exec.before + 1 /\ exec.now = stepCalls)

\* two closures behind the same wait both ran in the second step, in chain
\* order, and a third step ran neither
C16_Witness ==
    /\ chain = <<WaitItem(1), ThenItem, ThenItem>>
    /\ stepCalls = 3
    /\ pos = 4
    /\ ran = << <<2, 2>>, <<2, 3>> >>

\* ---------------------------------------------------------- input claims

OppositePads(a, b) == {a, b} = {"Up", "Bottom"} \/ {a, b} = {"Left", "Right"}

\* C17 (as claimed): a direction converts to the same vector by value and by
\* reference, every result is a unit vector along one axis, and opposite
\* directions convert to negated vectors.
C17_SameVector ==
    \A i, j \in 1..Len(padLog) :
        LET a == padLog[i]
            b == padLog[j]
        IN  /\ Abs(a.vec[1]) + Abs(a.vec[2]) = 1
            /\ (a.dpad = b.dpad => a.vec = b.vec)
            /\ (OppositePads(a.dpad, b.dpad) => a.vec = << -b.vec[1], -b.vec[2] >>)

====
